---- MODULE Spec2Model ----
(***************************************************************************)
(* Model of the SGP30 MicroPython driver (src/sgp30.py).                   *)
(*                                                                         *)
(* The driver is synchronous and holds no state beyond the bus handle and  *)
(* the address, so every public method is one action.  The state is what a *)
(* recording bus fake and the caller observe of the most recent call: the  *)
(* method, its arguments, how it ended, what it returned, and the ordered  *)
(* bus events (write, sleep, read) it produced.                            *)
(***************************************************************************)
EXTENDS Integers, Sequences, FiniteSets, TLC

VARIABLES
    op,       \* name of the most recent call ("none" before the first)
    args,     \* its arguments, as the caller passed them
    outcome,  \* "ok" or the kind of error the call raised
    result,   \* the value the call returned (<<>> when it returned nothing)
    words,    \* the list _read_words_with_crc returned in the call (<<>> if it raised or was not reached)
    trace,    \* bus events of the call, in order
    busOps    \* number of bus events since construction

vars == <<op, args, outcome, result, words, trace, busOps>>

----------------------------------------------------------------------------
(* Bounds of the model *)

MaxBusOps == 3     \* calls are made while fewer than this many bus events happened
MaxShort  == 2     \* a short read misses up to this many trailing bytes
MaxArg    == 2     \* small baseline arguments 0..MaxArg, besides the named ones
MaxHumNum == 6     \* numerators -1..MaxHumNum of the humidity inputs, besides the named ones

----------------------------------------------------------------------------
(* Program constants *)

CMD_INIT_AIR_QUALITY      == <<32, 3>>
CMD_MEASURE_IAQ           == <<32, 8>>
CMD_GET_IAQ_BASELINE      == <<32, 21>>
CMD_SET_IAQ_BASELINE      == <<32, 30>>
CMD_MEASURE_RAW           == <<32, 80>>
CMD_MEASURE_TEST          == <<32, 50>>
CMD_SET_ABSOLUTE_HUMIDITY == <<32, 97>>
CMD_GET_SERIAL_ID         == <<54, 130>>
CMD_SOFT_RESET            == <<0, 6>>

\* settling delays, in milliseconds
DelayInit     == 10
DelayIaq      == 15
DelayRaw      == 20
DelayTest     == 200
DelayBaseline == 15
DelaySerial   == 1

SelfTestOk == 54272    \* 0xD400

----------------------------------------------------------------------------
(* Bit operations on non-negative integers *)

RECURSIVE Xor(_, _, _)
\* a ^ b on the low n bits
Xor(a, b, n) ==
    IF n = 0 THEN 0
    ELSE (((a % 2) + (b % 2)) % 2) + 2 * Xor(a \div 2, b \div 2, n - 1)

\* a ^ b for bytes, tabulated once
XorByte == [a \in 0..255 |-> [b \in 0..255 |-> Xor(a, b, 8)]]

\* value & 0xFF and value & 0xFFFF (Python's & on a negative int is the
\* two's complement residue, which is what % gives)
And8(v)  == v % 256
And16(v) == v % 65536

----------------------------------------------------------------------------
(* _crc8 *)

\* (variant: the polynomial is never applied)
CrcShiftNoPoly(crc) == (crc * 2) % 256

\* one pass of the inner loop
CrcShift(crc) ==
    IF (crc \div 128) % 2 = 1
    THEN Xor((crc * 2) % 256, 49, 8)
    ELSE (crc * 2) % 256

RECURSIVE CrcBits(_, _)
CrcBits(crc, k) == IF k = 0 THEN crc ELSE CrcBits(CrcShift(crc), k - 1)

\* the eight passes of the inner loop, tabulated once per accumulator value
CrcByte == [crc \in 0..255 |-> CrcBits(crc, 8)]

RECURSIVE CrcFrom(_, _, _)
\* the outer loop: crc ^= byte, then the inner loop
CrcFrom(crc, data, i) ==
    IF i > Len(data) THEN crc
    ELSE CrcFrom(CrcByte[XorByte[crc][data[i]]], data, i + 1)

crc8(data) == CrcFrom(255, data, 1)

----------------------------------------------------------------------------
(* bus events *)

WriteEv(buf, good) == [kind |-> "write", data |-> buf, n |-> Len(buf), ok |-> good]
SleepEv(ms)        == [kind |-> "sleep", data |-> <<>>, n |-> ms, ok |-> TRUE]
ReadEv(count, raw, good) == [kind |-> "read", data |-> raw, n |-> count, ok |-> good]

----------------------------------------------------------------------------
(* _write_command *)

\* (variant: low byte first)
ArgGroupLowFirst(value) ==
    LET hi == And8(value)
        lo == And8(value \div 256)
    IN  <<hi, lo, crc8(<<hi, lo>>)>>

\* the three bytes appended for one argument
ArgGroup(value) ==
    LET hi == And8(value \div 256)
        lo == And8(value)
    IN  <<hi, lo, crc8(<<hi, lo>>)>>

RECURSIVE ExtendArgs(_, _, _)
ExtendArgs(buf, arguments, i) ==
    IF i > Len(arguments) THEN buf
    ELSE ExtendArgs(buf \o ArgGroup(arguments[i]), arguments, i + 1)

cmd_to_bytes(cmd) == <<cmd[1], cmd[2]>>

\* wfail: the bus raises on this write
write_command(cmd, arguments, wfail) ==
    LET buf == ExtendArgs(cmd_to_bytes(cmd), arguments, 1)
    IN  [trace |-> <<WriteEv(buf, ~wfail)>>,
         err   |-> IF wfail THEN "TransportError" ELSE "ok"]

----------------------------------------------------------------------------
(* _read_bytes and _read_words_with_crc *)

\* (variant: the settling sleep is left out)
read_bytes_nosleep(count, delay, resp, rfail) ==
    [trace |-> <<ReadEv(count, IF rfail THEN <<>> ELSE resp, ~rfail)>>,
     err   |-> IF rfail THEN "TransportError" ELSE "ok",
     raw   |-> IF rfail THEN <<>> ELSE resp]

\* resp: the bytes the bus returns; rfail: the bus raises on this read
read_bytes(count, delay, resp, rfail) ==
    [trace |-> (IF delay # 0 THEN <<SleepEv(delay)>> ELSE <<>>)
               \o <<ReadEv(count, IF rfail THEN <<>> ELSE resp, ~rfail)>>,
     err   |-> IF rfail THEN "TransportError" ELSE "ok",
     raw   |-> IF rfail THEN <<>> ELSE resp]

RECURSIVE VerifyLoopFirstOnly(_, _, _, _)
\* (variant: only the first group's checksum is compared)
VerifyLoopFirstOnly(raw, n_words, i, acc) ==
    IF i >= n_words THEN [err |-> "ok", words |-> acc]
    ELSE LET a   == raw[i*3 + 1]
             b   == raw[i*3 + 2]
             crc == raw[i*3 + 3]
         IN  IF i = 0 /\ crc8(<<a, b>>) # crc
             THEN [err |-> "ChecksumError", words |-> <<>>]
             ELSE VerifyLoopFirstOnly(raw, n_words, i + 1, Append(acc, a * 256 + b))

RECURSIVE VerifyLoop(_, _, _, _)
\* the for loop of _read_words_with_crc; raising drops the list built so far
VerifyLoop(raw, n_words, i, acc) ==
    IF i >= n_words THEN [err |-> "ok", words |-> acc]
    ELSE LET a   == raw[i*3 + 1]
             b   == raw[i*3 + 2]
             crc == raw[i*3 + 3]
         IN  IF crc8(<<a, b>>) # crc
             THEN [err |-> "ChecksumError", words |-> <<>>]
             ELSE VerifyLoop(raw, n_words, i + 1, Append(acc, a * 256 + b))

\* (variant: only a short read is rejected)
read_words_with_crc_shortonly(n_words, delay, resp, rfail) ==
    LET rb == read_bytes(n_words * 3, delay, resp, rfail)
    IN  IF rb.err # "ok"
        THEN [trace |-> rb.trace, err |-> rb.err, words |-> <<>>]
        ELSE IF Len(rb.raw) < n_words * 3
        THEN [trace |-> rb.trace, err |-> "FramingLengthError", words |-> <<>>]
        ELSE LET v == VerifyLoop(rb.raw, n_words, 0, <<>>)
             IN  [trace |-> rb.trace, err |-> v.err, words |-> v.words]

read_words_with_crc(n_words, delay, resp, rfail) ==
    LET rb == read_bytes(n_words * 3, delay, resp, rfail)
    IN  IF rb.err # "ok"
        THEN [trace |-> rb.trace, err |-> rb.err, words |-> <<>>]
        ELSE IF Len(rb.raw) # n_words * 3
        THEN [trace |-> rb.trace, err |-> "FramingLengthError", words |-> <<>>]
        ELSE LET v == VerifyLoop(rb.raw, n_words, 0, <<>>)
             IN  [trace |-> rb.trace, err |-> v.err, words |-> v.words]

----------------------------------------------------------------------------
(* The bus fake: what the chip may answer *)

\* 3-byte groups a read may contain: the words 100, 200, 0xD400 and 0xBEEF
\* with their checksums, and 0xBEEF with a wrong checksum
GroupSamples ==
    { <<0, 100, 254>>, <<0, 200, 127>>, <<212, 0, 198>>, <<190, 239, 146>>,
      <<190, 239, 147>> }

RECURSIVE Flatten(_, _)
Flatten(gs, i) == IF i > Len(gs) THEN <<>> ELSE gs[i] \o Flatten(gs, i + 1)

\* the argument bytes of the frame the bus received in the most recent call
\* (a looped-back bus answers a read with them)
Wire ==
    IF trace # <<>> /\ trace[1].kind = "write" /\ trace[1].ok
    THEN SubSeq(trace[1].data, 3, Len(trace[1].data))
    ELSE <<>>

\* answers to a read of n words: n groups, complete, cut short, or one byte
\* too long
ChipAnswers ==
    [n \in 0..3 |->
        LET full == { Flatten(gs, 1) : gs \in [1..n -> GroupSamples] }
        IN  { SubSeq(r, 1, Len(r) - d) : r \in full, d \in 0..MaxShort }
            \cup { Append(r, 0) : r \in full }]

\* ... or the looped-back bytes
Responses(n) == ChipAnswers[n] \cup { Wire }

\* what the bus does during one call
BusInputs(n) ==
    { [wfail |-> TRUE,  rfail |-> FALSE, resp |-> <<>>],
      [wfail |-> FALSE, rfail |-> TRUE,  resp |-> <<>>] }
    \cup { [wfail |-> FALSE, rfail |-> FALSE, resp |-> r] : r \in Responses(n) }

\* integers a caller passes as a baseline: small ones, the spec's examples,
\* the largest word, and one beyond 16 bits
BaselineInputs == (0..MaxArg) \cup {100, 200, 65535, 65536}

\* humidity inputs in g/m3 as exact fractions <<numerator, denominator>>;
\* <<5120, 512>> is 10.0, <<1, 500>> is 0.002, <<131072, 512>> is 256.0
HumDens == {1, 2, 500, 512}
HumNums == (-1..MaxHumNum) \cup {5120, 131072}
HumidityInputs == HumNums \X HumDens

----------------------------------------------------------------------------
(* The public methods *)

\* the call returns (or raises): record what the caller and the bus saw
Return(name, argv, out, res, ws, tr) ==
    /\ op' = name
    /\ args' = argv
    /\ outcome' = out
    /\ result' = res
    /\ words' = ws
    /\ trace' = tr
    /\ busOps' = busOps + Len(tr)

init_air_quality(bus) ==
    LET W == write_command(CMD_INIT_AIR_QUALITY, <<>>, bus.wfail)
    IN  IF W.err # "ok"
        THEN Return("init_air_quality", <<>>, W.err, <<>>, <<>>, W.trace)
        ELSE Return("init_air_quality", <<>>, "ok", <<>>, <<>>,
                    W.trace \o <<SleepEv(DelayInit)>>)

measure_iaq(bus) ==
    LET W == write_command(CMD_MEASURE_IAQ, <<>>, bus.wfail)
        R == read_words_with_crc(2, DelayIaq, bus.resp, bus.rfail)
    IN  IF W.err # "ok"
        THEN Return("measure_iaq", <<>>, W.err, <<>>, <<>>, W.trace)
        ELSE IF R.err # "ok"
        THEN Return("measure_iaq", <<>>, R.err, <<>>, <<>>, W.trace \o R.trace)
        ELSE Return("measure_iaq", <<>>, "ok", <<R.words[1], R.words[2]>>,
                    R.words, W.trace \o R.trace)

measure_raw(bus) ==
    LET W == write_command(CMD_MEASURE_RAW, <<>>, bus.wfail)
        R == read_words_with_crc(2, DelayRaw, bus.resp, bus.rfail)
    IN  IF W.err # "ok"
        THEN Return("measure_raw", <<>>, W.err, <<>>, <<>>, W.trace)
        ELSE IF R.err # "ok"
        THEN Return("measure_raw", <<>>, R.err, <<>>, <<>>, W.trace \o R.trace)
        ELSE Return("measure_raw", <<>>, "ok", <<R.words[1], R.words[2]>>,
                    R.words, W.trace \o R.trace)

\* the result is Python's bool, written 1 for True and 0 for False
measure_test(bus) ==
    LET W == write_command(CMD_MEASURE_TEST, <<>>, bus.wfail)
        R == read_words_with_crc(1, DelayTest, bus.resp, bus.rfail)
    IN  IF W.err # "ok"
        THEN Return("measure_test", <<>>, W.err, <<>>, <<>>, W.trace)
        ELSE IF R.err # "ok"
        THEN Return("measure_test", <<>>, R.err, <<>>, <<>>, W.trace \o R.trace)
        ELSE Return("measure_test", <<>>, "ok",
                    <<IF R.words[1] = SelfTestOk THEN 1 ELSE 0>>,
                    R.words, W.trace \o R.trace)

get_baseline(bus) ==
    LET W == write_command(CMD_GET_IAQ_BASELINE, <<>>, bus.wfail)
        R == read_words_with_crc(2, DelayBaseline, bus.resp, bus.rfail)
    IN  IF W.err # "ok"
        THEN Return("get_baseline", <<>>, W.err, <<>>, <<>>, W.trace)
        ELSE IF R.err # "ok"
        THEN Return("get_baseline", <<>>, R.err, <<>>, <<>>, W.trace \o R.trace)
        ELSE LET tvoc_baseline == R.words[1]
                 eco2_baseline == R.words[2]
             IN  Return("get_baseline", <<>>, "ok",
                        <<eco2_baseline, tvoc_baseline>>,
                        R.words, W.trace \o R.trace)

\* (variant: payload in the caller's order)
set_baseline_unswapped(eCO2, TVOC, wfail) ==
    IF eCO2 = 0 /\ TVOC = 0
    THEN Return("set_baseline", <<eCO2, TVOC>>, "InvalidArgumentError",
                <<>>, <<>>, <<>>)
    ELSE LET W == write_command(CMD_SET_IAQ_BASELINE,
                                <<And16(eCO2), And16(TVOC)>>, wfail)
         IN  Return("set_baseline", <<eCO2, TVOC>>, W.err, <<>>, <<>>, W.trace)

set_baseline(eCO2, TVOC, wfail) ==
    IF eCO2 = 0 /\ TVOC = 0
    THEN Return("set_baseline", <<eCO2, TVOC>>, "InvalidArgumentError",
                <<>>, <<>>, <<>>)
    ELSE LET W == write_command(CMD_SET_IAQ_BASELINE,
                                <<And16(TVOC), And16(eCO2)>>, wfail)
         IN  Return("set_baseline", <<eCO2, TVOC>>, W.err, <<>>, <<>>, W.trace)

\* (variant: rounds half up)
FixedPointRounded(g) == And16((g[1] * 512 + g[2]) \div (2 * g[2]))

\* int(grams_per_m3 * 256) & 0xFFFF for a positive input: int() drops the
\* fraction
FixedPoint(g) == And16((g[1] * 256) \div g[2])

\* (variant: zero passes the argument check)
set_absolute_humidity_zero_ok(g, wfail) ==
    IF g[1] < 0
    THEN Return("set_absolute_humidity", g, "InvalidArgumentError",
                <<>>, <<>>, <<>>)
    ELSE LET v   == FixedPoint(g)
             val == IF v = 0 THEN 1 ELSE v
             W   == write_command(CMD_SET_ABSOLUTE_HUMIDITY, <<val>>, wfail)
         IN  Return("set_absolute_humidity", g, W.err, <<>>, <<>>, W.trace)

set_absolute_humidity(g, wfail) ==
    IF g[1] <= 0
    THEN Return("set_absolute_humidity", g, "InvalidArgumentError",
                <<>>, <<>>, <<>>)
    ELSE LET v   == FixedPoint(g)
             val == IF v = 0 THEN 1 ELSE v
             W   == write_command(CMD_SET_ABSOLUTE_HUMIDITY, <<val>>, wfail)
         IN  Return("set_absolute_humidity", g, W.err, <<>>, <<>>, W.trace)

\* the 48-bit integer words[0] << 32 | words[1] << 16 | words[2], written as
\* its high and low 24 bits (the model's integers are 32 bits wide)
get_serial_id(bus) ==
    LET W == write_command(CMD_GET_SERIAL_ID, <<>>, bus.wfail)
        R == read_words_with_crc(3, DelaySerial, bus.resp, bus.rfail)
    IN  IF W.err # "ok"
        THEN Return("get_serial_id", <<>>, W.err, <<>>, <<>>, W.trace)
        ELSE IF R.err # "ok"
        THEN Return("get_serial_id", <<>>, R.err, <<>>, <<>>, W.trace \o R.trace)
        ELSE Return("get_serial_id", <<>>, "ok",
                    <<R.words[1] * 256 + (R.words[2] \div 256),
                      (R.words[2] % 256) * 65536 + R.words[3]>>,
                    R.words, W.trace \o R.trace)

\* (variant: the failure is passed on)
soft_reset_raising(wfail) ==
    LET W == write_command(CMD_SOFT_RESET, <<>>, wfail)
    IN  Return("soft_reset", <<>>, W.err, <<>>, <<>>, W.trace)

\* except Exception: pass
soft_reset(wfail) ==
    LET W == write_command(CMD_SOFT_RESET, <<>>, wfail)
    IN  Return("soft_reset", <<>>, "ok", <<>>, <<>>, W.trace)

----------------------------------------------------------------------------
(* The driver under an arbitrary caller and bus *)

Init ==
    /\ op = "none"
    /\ args = <<>>
    /\ outcome = "none"
    /\ result = <<>>
    /\ words = <<>>
    /\ trace = <<>>
    /\ busOps = 0

Ready == busOps < MaxBusOps

InitAirQuality == Ready /\ \E bus \in BusInputs(0) : init_air_quality(bus)
MeasureIaq     == Ready /\ \E bus \in BusInputs(2) : measure_iaq(bus)
MeasureRaw     == Ready /\ \E bus \in BusInputs(2) : measure_raw(bus)
MeasureTest    == Ready /\ \E bus \in BusInputs(1) : measure_test(bus)
GetBaseline    == Ready /\ \E bus \in BusInputs(2) : get_baseline(bus)
SetBaseline    ==
    Ready /\ \E eCO2 \in BaselineInputs, TVOC \in BaselineInputs, wfail \in BOOLEAN :
                 set_baseline(eCO2, TVOC, wfail)
SetAbsoluteHumidity ==
    Ready /\ \E g \in HumidityInputs, wfail \in BOOLEAN : set_absolute_humidity(g, wfail)
GetSerialId    == Ready /\ \E bus \in BusInputs(3) : get_serial_id(bus)
SoftReset      == Ready /\ \E wfail \in BOOLEAN : soft_reset(wfail)

Next ==
    \/ InitAirQuality
    \/ MeasureIaq
    \/ MeasureRaw
    \/ MeasureTest
    \/ GetBaseline
    \/ SetBaseline
    \/ SetAbsoluteHumidity
    \/ GetSerialId
    \/ SoftReset

Spec == Init /\ [][Next]_vars

----------------------------------------------------------------------------
(* The framer alone: one word written, then read back from the wire *)

Words == 0..65535

\* bit positions of a 3-byte group, 1..24, the first byte's lowest bit first
BitPositions == 1..24

\* the bytes with the bit at position p inverted
FlipBit(raw, p) ==
    LET i == ((p - 1) \div 8) + 1
        k == (p - 1) % 8
    IN  [raw EXCEPT ![i] = XorByte[raw[i]][2^k]]

\* _write_command(cmd, (w,)) on a bus that accepts the write
WireWrite ==
    /\ op = "none"
    /\ \E w \in Words :
          LET W == write_command(CMD_SET_ABSOLUTE_HUMIDITY, <<w>>, FALSE)
          IN  Return("_write_command", <<w>>, W.err, <<>>, <<>>, W.trace)

\* _read_words_with_crc(1) on a bus that answers with the argument group just
\* written; args keeps the word written and adds the flipped position (0: none)
WireReadBack ==
    /\ op = "_write_command"
    /\ LET R == read_words_with_crc(1, DelaySerial, Wire, FALSE)
       IN  Return("_read_words_with_crc", <<args[1], 0>>, R.err, R.words,
                  R.words, R.trace)

\* the same with one bit of the group inverted on the way
WireReadFlipped ==
    /\ op = "_write_command"
    /\ \E p \in BitPositions :
          LET R == read_words_with_crc(1, DelaySerial, FlipBit(Wire, p), FALSE)
          IN  Return("_read_words_with_crc", <<args[1], p>>, R.err, R.words,
                     R.words, R.trace)

WireNext == WireWrite \/ WireReadBack \/ WireReadFlipped

SpecWire == Init /\ [][WireNext]_vars

----------------------------------------------------------------------------
(* What the recording bus saw in the most recent call *)

EventsOf(k) == SelectSeq(trace, LAMBDA e : e.kind = k)

WriteEvents == EventsOf("write")
ReadEvents  == EventsOf("read")
SleepEvents == EventsOf("sleep")

\* a read took place and the bus answered it
ReadAnswered == Len(ReadEvents) = 1 /\ ReadEvents[1].ok
\* the bytes it answered with, and the number of words asked for
Raw       == ReadEvents[1].data
Requested == ReadEvents[1].n \div 3

\* the frame handed to the bus
Frame == WriteEvents[1].data

\* the group at index i (from 0) of raw carries the checksum of its two bytes
GroupValid(raw, i) == raw[3*i + 3] = crc8(<<raw[3*i + 1], raw[3*i + 2]>>)
\* the big-endian word of that group
GroupWord(raw, i) == raw[3*i + 1] * 256 + raw[3*i + 2]

ReadingOps == {"measure_iaq", "measure_raw", "measure_test", "get_baseline",
               "get_serial_id"}
RaisingOps == ReadingOps \cup {"init_air_quality", "set_baseline",
                               "set_absolute_humidity"}

DelayOf(o) ==
    CASE o = "measure_iaq"   -> DelayIaq
      [] o = "measure_raw"   -> DelayRaw
      [] o = "measure_test"  -> DelayTest
      [] o = "get_baseline"  -> DelayBaseline
      [] o = "get_serial_id" -> DelaySerial
      [] OTHER               -> 0

----------------------------------------------------------------------------
(* C1 *)

\* set_baseline with 16-bit arguments, not both zero
BaselineSetCase ==
    /\ op = "set_baseline"
    /\ args[1] \in Words /\ args[2] \in Words
    /\ args # <<0, 0>>

\* one frame: opcode, then the group of TVOC, then the group of eCO2
BaselineFrameSwapped ==
    /\ Len(trace) = 1
    /\ trace[1].kind = "write"
    /\ Len(Frame) = 8
    /\ SubSeq(Frame, 1, 2) = <<32, 30>>
    /\ GroupWord(SubSeq(Frame, 3, 8), 0) = args[2]
    /\ GroupValid(SubSeq(Frame, 3, 8), 0)
    /\ GroupWord(SubSeq(Frame, 3, 8), 1) = args[1]
    /\ GroupValid(SubSeq(Frame, 3, 8), 1)

\* get_baseline answered with two well-formed groups
BaselineGetCase ==
    /\ op = "get_baseline"
    /\ ReadAnswered
    /\ Len(Raw) = 6
    /\ GroupValid(Raw, 0) /\ GroupValid(Raw, 1)

BaselineResultSwapped ==
    /\ outcome = "ok"
    /\ result = <<GroupWord(Raw, 1), GroupWord(Raw, 0)>>

\* C1: set_baseline(eCO2, TVOC) with 16-bit arguments not both zero writes one
\* frame whose first argument group encodes TVOC and whose second encodes eCO2;
\* get_baseline answered with the wire words (w0, w1) returns (w1, w0); and a
\* get_baseline answered with the argument groups a set_baseline(e, t) has just
\* written returns (e, t).
C1_BaselineOrderInversion ==
    [][ /\ (BaselineSetCase' => BaselineFrameSwapped')
        /\ (BaselineGetCase' => BaselineResultSwapped')
        /\ ( ( /\ BaselineSetCase
               /\ trace[1].ok
               /\ BaselineGetCase'
               /\ Raw' = Wire )
             => (outcome' = "ok" /\ result' = args) ) ]_vars

\* get_baseline returned (100, 200) from the groups set_baseline(100, 200) wrote
C1_Witness ==
    /\ op = "get_baseline"
    /\ busOps = 4
    /\ ReadAnswered
    /\ Raw = <<0, 200, 127, 0, 100, 254>>
    /\ result = <<100, 200>>

----------------------------------------------------------------------------
(* C2 *)

InvalidArgumentCase ==
    \/ op = "set_baseline" /\ args = <<0, 0>>
    \/ op = "set_absolute_humidity" /\ args[1] <= 0

\* C2: set_baseline(0, 0) and set_absolute_humidity with an input <= 0 fail with
\* an invalid-argument error, and the failing call makes no bus write, no bus
\* read and no sleep: the bus trace is as it was before the call.
C2_InvalidArgumentsBeforeBus ==
    [][ InvalidArgumentCase' =>
          /\ outcome' = "InvalidArgumentError"
          /\ Len(WriteEvents') = 0 /\ Len(ReadEvents') = 0 /\ Len(SleepEvents') = 0
          /\ busOps' = busOps ]_vars

\* a rejected set_absolute_humidity(0) made after the bus had been used
C2_Witness ==
    /\ op = "set_absolute_humidity"
    /\ args[1] = 0
    /\ outcome = "InvalidArgumentError"
    /\ busOps > 0

----------------------------------------------------------------------------
(* C3 *)

\* a read of 1..3 words answered with exactly 3n bytes
FullReadCase ==
    /\ ReadAnswered
    /\ Requested \in 1..3
    /\ Len(Raw) = 3 * Requested

\* C3: when a read of n words returns exactly 3n bytes and the checksum of any
\* group is wrong, the call fails with a checksum error and no words are
\* returned, not even those of earlier, well-formed groups; when every group is
\* well-formed the words returned are the big-endian words of the groups, in
\* order.
C3_ChecksumAllOrNothing ==
    FullReadCase =>
        IF \E i \in 0..(Requested - 1) : ~GroupValid(Raw, i)
        THEN outcome = "ChecksumError" /\ words = <<>> /\ result = <<>>
        ELSE outcome = "ok" /\ words = [i \in 1..Requested |-> GroupWord(Raw, i - 1)]

\* get_serial_id whose first two groups are well-formed and whose third is not
C3_Witness ==
    /\ op = "get_serial_id"
    /\ ReadAnswered
    /\ Raw = <<0, 100, 254, 0, 200, 127, 190, 239, 147>>
    /\ outcome = "ChecksumError"
    /\ words = <<>>

----------------------------------------------------------------------------
(* C4 *)

WrongLengthCase == ReadAnswered /\ Len(Raw) # ReadEvents[1].n

\* C4: when the bus read returns a number of bytes other than the word count
\* times three, the call fails with a framing-length error whatever the
\* checksums of the bytes received are, no words are produced, and the read is
\* not repeated.
C4_FramingLengthMismatch ==
    WrongLengthCase =>
        /\ outcome = "FramingLengthError"
        /\ words = <<>>
        /\ result = <<>>
        /\ Len(ReadEvents) = 1
        /\ trace[Len(trace)].kind = "read"

\* 5 bytes for 6 requested, the first group with a wrong checksum
C4_Witness ==
    /\ op = "measure_iaq"
    /\ ReadAnswered
    /\ ReadEvents[1].n = 6
    /\ Raw = <<190, 239, 147, 0, 100>>
    /\ outcome = "FramingLengthError"

----------------------------------------------------------------------------
(* C5 *)

\* set_absolute_humidity with a positive input
HumidityCase == op = "set_absolute_humidity" /\ args[1] > 0

\* the argument word of the frame written
HumidityWord == GroupWord(SubSeq(Frame, 3, 5), 0)

HumidityOneWordFrame ==
    /\ Len(trace) = 1
    /\ trace[1].kind = "write"
    /\ Len(Frame) = 5
    /\ SubSeq(Frame, 1, 2) = <<32, 97>>
    /\ GroupValid(SubSeq(Frame, 3, 5), 0)

\* n/d rounded to the nearest integer, halves to the even one (Python's round)
Round(n, d) ==
    LET q == n \div d
        r == n % d
    IN  IF 2 * r < d THEN q
        ELSE IF 2 * r > d THEN q + 1
        ELSE IF q % 2 = 0 THEN q ELSE q + 1

Clamped(v) == IF v = 0 THEN 1 ELSE v

\* C5 as stated: the word written is round(g * 256) masked to 16 bits, with 0
\* replaced by 1.
C5_HumidityRounded ==
    HumidityCase =>
        /\ HumidityOneWordFrame
        /\ HumidityWord = Clamped(Round(args[1] * 256, args[2]) % 65536)

\* C5, amended: for every positive input g, set_absolute_humidity writes exactly
\* one argument word, equal to g * 256 with its fraction dropped (not rounded),
\* masked to 16 bits, with 0 replaced by 1; 10.0 is written as 2560, 0.002 as 1,
\* and the word is never 0.
C5_HumidityTruncated ==
    HumidityCase =>
        /\ HumidityOneWordFrame
        /\ HumidityWord = Clamped(((args[1] * 256) \div args[2]) % 65536)
        /\ HumidityWord # 0
        /\ (args[1] * 1 = args[2] * 10 => HumidityWord = 2560)
        /\ (args[1] * 500 = args[2] * 1 => HumidityWord = 1)

\* 3/512 g/m3: g * 256 is 1.5, written as 1
C5_Witness ==
    /\ op = "set_absolute_humidity"
    /\ args = <<3, 512>>
    /\ outcome = "ok"
    /\ HumidityWord = 1

----------------------------------------------------------------------------
(* C6 *)

\* the bus raised during the call
TransportFailed == \E i \in 1..Len(trace) : ~trace[i].ok

\* C6: a failed bus write during soft_reset is swallowed and soft_reset returns
\* normally; a failed bus write or read during any other method makes that
\* method fail with the transport error, and the failed access is the last one
\* the method makes (nothing is retried).
C6_SoftResetAsymmetry ==
    /\ (op = "soft_reset" => outcome = "ok")
    /\ (op \in RaisingOps /\ TransportFailed =>
            /\ outcome = "TransportError"
            /\ ~trace[Len(trace)].ok
            /\ \A i \in 1..(Len(trace) - 1) : trace[i].ok
            /\ Len(WriteEvents) <= 1 /\ Len(ReadEvents) <= 1)
    /\ (op \in RaisingOps /\ outcome = "TransportError" => TransportFailed)

\* soft_reset returned normally although its write failed
C6_Witness ==
    /\ op = "soft_reset"
    /\ Len(trace) = 1
    /\ ~trace[1].ok
    /\ outcome = "ok"

----------------------------------------------------------------------------
(* C7 *)

\* C7: for every word w in [0, 0xFFFF], the group the write path produces for w
\* is (high byte, low byte, crc8 of the two), and the read path, answered with
\* that group, accepts it and returns exactly w.
C7_WordRoundTrip ==
    (op = "_read_words_with_crc" /\ args[2] = 0) =>
        /\ ReadAnswered
        /\ Raw = <<args[1] \div 256, args[1] % 256,
                   crc8(<<args[1] \div 256, args[1] % 256>>)>>
        /\ outcome = "ok"
        /\ words = <<args[1]>>

\* 0xBEEF written as BE EF 92 and read back
C7_Witness ==
    /\ op = "_read_words_with_crc"
    /\ args = <<48879, 0>>
    /\ Raw = <<190, 239, 146>>
    /\ words = <<48879>>

----------------------------------------------------------------------------
(* C8 *)

\* C8: for every word w in [0, 0xFFFF] and each of the 24 bit positions of its
\* group, the group with that one bit inverted fails the read path's checksum
\* verification; crc8 is the CRC-8 with polynomial 0x31 and initial value 0xFF
\* (crc8 of nothing is 0xFF, of BE EF is 0x92).
C8_SingleBitCorruptionDetected ==
    (op = "_read_words_with_crc" /\ args[2] \in BitPositions) =>
        /\ ReadAnswered
        /\ Len(Raw) = 3
        /\ outcome = "ChecksumError"
        /\ words = <<>>
        /\ crc8(<<>>) = 255
        /\ crc8(<<190, 239>>) = 146

\* 0xBEEF with the lowest bit of its checksum inverted: BE EF 93
C8_Witness ==
    /\ op = "_read_words_with_crc"
    /\ args = <<48879, 17>>
    /\ Raw = <<190, 239, 147>>
    /\ outcome = "ChecksumError"

----------------------------------------------------------------------------
(* C9 *)

\* C9: in every call of every public method the bus sees at most one write and
\* at most one read; a read occurs only in the methods that return words, and
\* then the call's bus events are exactly the successful write, the method's
\* settling sleep, and the read, in this order; a failed write is the only bus
\* event of its call.
C9_PerCallOrdering ==
    /\ Len(WriteEvents) <= 1
    /\ Len(ReadEvents) <= 1
    /\ (Len(ReadEvents) = 1 =>
            /\ op \in ReadingOps
            /\ Len(trace) = 3
            /\ trace[1].kind = "write" /\ trace[1].ok
            /\ trace[2].kind = "sleep" /\ trace[2].n = DelayOf(op) /\ trace[2].n > 0
            /\ trace[3].kind = "read")
    /\ (Len(WriteEvents) = 1 /\ ~WriteEvents[1].ok => Len(trace) = 1)

\* the self-test: write, 200 ms, read
C9_Witness ==
    /\ op = "measure_test"
    /\ outcome = "ok"
    /\ Len(trace) = 3
    /\ trace[2].n = 200
    /\ trace[3].kind = "read"

----------------------------------------------------------------------------
(* C10 *)

\* C10: whatever integers set_baseline is given, no set-baseline frame (opcode
\* 0x201E) whose two argument words are both 0x0000 is delivered to the bus.
C10_NoAllZeroBaselineOnBus ==
    \A i \in 1..Len(trace) :
        ( /\ trace[i].kind = "write"
          /\ trace[i].ok
          /\ SubSeq(trace[i].data, 1, 2) = <<32, 30>> )
        => ~( /\ GroupWord(SubSeq(trace[i].data, 3, 8), 0) = 0
              /\ GroupWord(SubSeq(trace[i].data, 3, 8), 1) = 0 )

====
